---- MODULE Spec2Model ----
(***************************************************************************)
(* A model of thermompnn/model/v2_model.py: the helper functions and the   *)
(* forward pass of TransferModelv2.  Tensors are functions over 0-based    *)
(* index ranges; the batched tensor operations of the code (gather,        *)
(* scatter_, broadcasting, masked fill, reductions) are operators that     *)
(* compute what the library computes.  The backbone network and the        *)
(* learned layers are opaque: their outputs are drawn from bounded sets.   *)
(*                                                                         *)
(* Each part of forward is exercised by a specification of its own, which  *)
(* draws that part's inputs in its initial states:                         *)
(*   SpecSeq     _check_sequence_match                                     *)
(*   SpecAgg     light attention and the aggregation over slots            *)
(*   SpecGather  the gather of each slot's residue embedding               *)
(*   SpecHead    _set_model_dims and the output indexing                   *)
(*   SpecShape   __init__ and the tensor widths built by forward           *)
(*   SpecDist    the pairwise distance features                            *)
(*   SpecEdges   _dist and the edge features                               *)
(*   SpecPerm    two calls of the multi-mutation path, slots exchanged     *)
(***************************************************************************)
EXTENDS Integers, Sequences, FiniteSets, TLC

VARIABLES
    pc,                 \* position in the function being executed
    err,                \* the exception that ended the call, or "none"
    cfg,                \* cfg.model: the configuration options
    S,                  \* [B, L] sequence tensor (amino-acid indices)
    mut_positions,      \* [B, N] mutated residue index per slot
    mut_wildtype_AAs,   \* [B, N] wild-type amino acid per slot
    mut_mutant_AAs,     \* [B, N] mutant amino acid per slot
    mut_idx,            \* loop variable of _check_sequence_match
    S_in,               \* the caller's S as it was when forward was called
    first_call,         \* what the caller kept of an earlier call of forward
    la_out,             \* light-attention output per slot, as first computed
    all_mpnn_embed,     \* the list of per-slot embeddings, later stacked
    mask,               \* [B, E, N] padding mask of the aggregation
    slot,               \* loop variable of forward's loops over mutation slots
    mpnn_embed,         \* the whole-sequence, then the combined, embedding
    ddg,                \* output of ddg_out
    ret,                \* the tensor forward returns
    X,                  \* residue coordinates
    mpnn_edges,         \* backbone edge tensor, then the per-slot edge features
    dX_all_agg,         \* the list of pairwise distance features, later stacked
    dims,               \* what __init__ built: layer widths and optional modules
    shape               \* shapes of the tensors forward has built so far

inputs == <<cfg, mut_positions, mut_wildtype_AAs, mut_mutant_AAs>>
seqv == <<S, mut_idx, S_in, first_call>>
aggv == <<la_out, all_mpnn_embed, mask, mpnn_embed>>

featv == <<X, mpnn_edges, dX_all_agg>>
shapev == <<dims, shape>>

vars == <<pc, err, inputs, seqv, aggv, slot, ddg, ret, featv, shapev>>

(***************************************************************************)
(* Bounds of the model.                                                    *)
(***************************************************************************)
BatchSize == 2          \* B: samples per batch
MaxMut == 2             \* N: mutation slots per sample
MaxAA == 2              \* amino-acid indices are 0..MaxAA in the drawn inputs
SeqCheckLen == 2        \* L in the _check_sequence_match runs

Batch == 0 .. (BatchSize - 1)
Slots(n) == 0 .. (n - 1)
AAs == 0 .. MaxAA
Unused == <<>>

\* the variables a specification does not use hold no value
IdleSeq == S = Unused /\ mut_idx = 0 /\ S_in = Unused /\ first_call = Unused
IdleAgg ==
    /\ la_out = Unused /\ all_mpnn_embed = Unused /\ mask = Unused
    /\ mpnn_embed = Unused /\ slot = 0
IdleHead == ddg = Unused /\ ret = Unused
IdleFeat == X = Unused /\ mpnn_edges = Unused /\ dX_all_agg = Unused
IdleShape == dims = Unused /\ shape = Unused

(***************************************************************************)
(* Tensor helpers.                                                         *)
(***************************************************************************)
RECURSIVE SumOver(_, _)
\* the sum of f over the finite index set D
SumOver(f, D) ==
    IF D = {} THEN 0
    ELSE LET d == CHOOSE x \in D : TRUE
         IN  f[d] + SumOver(f, D \ {d})

\* torch.gather(input, -1, index) for a 2-D input and a 2-D index
TorchGather2(input, index) ==
    [b \in DOMAIN index |-> [j \in DOMAIN index[b] |-> input[b][index[b][j]]]]

\* input.scatter_(dim=1, index, src) for 2-D tensors with one index column
TorchScatter2(input, index, src) ==
    [b \in DOMAIN input |->
        [l \in DOMAIN input[b] |->
            IF \E j \in DOMAIN index[b] : index[b][j] = l
            THEN src[b][CHOOSE j \in DOMAIN index[b] : index[b][j] = l]
            ELSE input[b][l]]]

\* t[..., m, None]: column m of a [B, N] tensor as a [B, 1] tensor
Column(t, m) == [b \in DOMAIN t |-> [j \in {0} |-> t[b][m]]]

\* torch.sum(a - v) for a of shape [B, 1] and v of shape [B]: the
\* subtraction broadcasts to [B, B] and the sum runs over all of it
BroadcastDiffSum(a, v) ==
    SumOver([b \in DOMAIN a |->
                SumOver([c \in DOMAIN v |-> a[b][0] - v[c]], DOMAIN v)],
            DOMAIN a)

\* a slot is padding iff position + wild type + mutant == 0
IsPadding(b, i) ==
    mut_positions[b][i] + mut_wildtype_AAs[b][i] + mut_mutant_AAs[b][i] = 0

NumSlots == Cardinality(DOMAIN mut_positions[0])

(***************************************************************************)
(* _check_sequence_match(S, wt, mut, pos)                                  *)
(***************************************************************************)
\* the test of line 48 for the current mutation column
SequenceMismatch(s, wt, pos, m) ==
    BroadcastDiffSum(TorchGather2(s, Column(pos, m)),
                     [b \in DOMAIN wt |-> wt[b][m]]) # 0

\* one iteration of the loop over mutation columns
CheckSequenceMatchStep ==
    /\ pc = "check_sequence_match"
    /\ mut_idx < NumSlots
    /\ S' = IF SequenceMismatch(S, mut_wildtype_AAs, mut_positions, mut_idx)
            THEN TorchScatter2(S, Column(mut_positions, mut_idx),
                               Column(mut_wildtype_AAs, mut_idx))
            ELSE S
    /\ mut_idx' = mut_idx + 1
    /\ S_in' = S_in
    /\ first_call' = first_call
    /\ UNCHANGED <<pc, err, inputs, aggv, slot, ddg, ret, featv, shapev>>

CheckSequenceMatchReturn ==
    /\ pc = "check_sequence_match"
    /\ mut_idx = NumSlots
    /\ pc' = "sequence_checked"
    /\ UNCHANGED <<err, inputs, seqv, aggv, slot, ddg, ret, featv, shapev>>

\* The mutation lists a batch can hold: slot 0 is a genuine mutation, later
\* slots are genuine or padding (0, 0, 0), and the genuine slots of a sample
\* mutate distinct positions.  A genuine slot's mutant differs from its wild type.
SlotTriples(len) ==
    {t \in (0 .. (len - 1)) \X AAs \X AAs : t[2] # t[3]} \cup {<<0, 0, 0>>}

SampleSlots(n, len) ==
    {m \in [Slots(n) -> SlotTriples(len)] :
        /\ m[0] # <<0, 0, 0>>
        /\ \A i, j \in Slots(n) :
              (i # j /\ m[i] # <<0, 0, 0>> /\ m[j] # <<0, 0, 0>>) => m[i][1] # m[j][1]}

SeqSlotTriples == {t \in SlotTriples(SeqCheckLen) : t[3] = (t[2] + 1) % (MaxAA + 1)
                                                     \/ t = <<0, 0, 0>>}

SeqSampleSlots == {m \in SampleSlots(MaxMut, SeqCheckLen) :
                      \A i \in Slots(MaxMut) : m[i] \in SeqSlotTriples}

InitSeq ==
    /\ pc = "check_sequence_match"
    /\ err = "none"
    /\ cfg = Unused
    /\ IdleAgg /\ IdleHead /\ IdleFeat /\ IdleShape
    /\ mut_idx = 0
    /\ S \in [Batch -> [0 .. (SeqCheckLen - 1) -> AAs]]
    /\ S_in = S
    /\ first_call = Unused
    /\ \E m \in [Batch -> SeqSampleSlots] :
          /\ mut_positions = [b \in Batch |-> [i \in Slots(MaxMut) |-> m[b][i][1]]]
          /\ mut_wildtype_AAs = [b \in Batch |-> [i \in Slots(MaxMut) |-> m[b][i][2]]]
          /\ mut_mutant_AAs = [b \in Batch |-> [i \in Slots(MaxMut) |-> m[b][i][3]]]

NextSeq == CheckSequenceMatchStep \/ CheckSequenceMatchReturn

SpecSeq == InitSeq /\ [][NextSeq]_vars

(***************************************************************************)
(* C7: after _check_sequence_match returns, the sequence agrees with the   *)
(* wild type at the mutated position of every genuine (non-padding) slot   *)
(* of every sample.                                                        *)
(***************************************************************************)
C7_SequenceMatchesWildType ==
    pc = "sequence_checked" =>
        \A b \in Batch : \A m \in Slots(NumSlots) :
            ~IsPadding(b, m) => S[b][mut_positions[b][m]] = mut_wildtype_AAs[b][m]

(***************************************************************************)
(* C11: when _check_sequence_match returns, S differs from the S it was    *)
(* given only at entries (b, pos[b][m]) of genuine slots m whose residue   *)
(* differed from wt[b][m].  Every other entry is as it was: position 0 of  *)
(* a sample with padded slots, and all of S when S already matched the     *)
(* wild type at every mutated position.                                    *)
(***************************************************************************)
C11_ChangesOnlyMismatchedGenuineEntries ==
    pc = "sequence_checked" =>
        \A b \in Batch : \A l \in 0 .. (SeqCheckLen - 1) :
            S[b][l] # S_in[b][l] =>
                \E m \in Slots(NumSlots) :
                    /\ ~IsPadding(b, m)
                    /\ mut_positions[b][m] = l
                    /\ S_in[b][l] # mut_wildtype_AAs[b][m]

(***************************************************************************)
(* Non-learned aggregation of forward (lines 272-300).                     *)
(*                                                                         *)
(* Floating-point values are tagged: <<"num", n>> is the number n,         *)
(* <<"nan", 0>> is NaN, <<"-inf", 0>> is -infinity and <<"frac", s, c>>    *)
(* is the quotient s / c that a mean returns.                              *)
(***************************************************************************)
EmbedWidth == 2         \* E: embedding coordinates kept by the model
MaxTable == 2           \* the opaque layers' outputs are drawn from tables 0..MaxTable

Coords == 0 .. (EmbedWidth - 1)
Num(n) == <<"num", n>>
NaN == <<"nan", 0>>
NegInf == <<"-inf", 0>>
Frac(s, c) == <<"frac", s, c>>

Aggregations == {"mean", "sum", "prod", "max"}

\* the output of an opaque layer: table v gives slot i of sample b the value
\* Tbl(v, b, e, i) at coordinate e; the values range over -3 .. 3
Tbl(v, b, e, i) == ((2 * v + 3 * b + 5 * e + 4 * i) % 7) - 3

EmbedTable(v, n) ==
    [i \in Slots(n) |-> [b \in Batch |-> [e \in Coords |-> Num(Tbl(v, b, e, i))]]]

\* torch.stack(list, dim=-1) of a list of [B, E] tensors: [B, E, N]
TorchStackLast(list) ==
    [b \in Batch |-> [e \in Coords |-> [i \in DOMAIN list |-> list[i][b][e]]]]

\* a mask that forgets the mutant amino acid
PaddingMaskNoMutant ==
    [b \in Batch |-> [i \in Slots(NumSlots) |->
        mut_wildtype_AAs[b][i] + mut_positions[b][i] = 0]]

\* mask = (mut_mutant_AAs + mut_wildtype_AAs + mut_positions) == 0
PaddingMask == [b \in Batch |-> [i \in Slots(NumSlots) |-> IsPadding(b, i)]]

\* mask.unsqueeze(1).repeat(1, E, 1)
ExpandMask(m) == [b \in Batch |-> [e \in Coords |-> m[b]]]

\* t[m] = v
MaskedFill(t, m, v) ==
    [b \in DOMAIN t |-> [e \in DOMAIN t[b] |-> [i \in DOMAIN t[b][e] |->
        IF m[b][e][i] THEN v ELSE t[b][e][i]]]]

RECURSIVE RowSum(_, _)
RowSum(row, n) == IF n = 0 THEN 0 ELSE RowSum(row, n - 1) + row[n - 1][2]

RECURSIVE RowProd(_, _)
RowProd(row, n) == IF n = 0 THEN 1 ELSE RowProd(row, n - 1) * row[n - 1][2]

\* the larger of two tagged values, -inf being below every number
Larger(x, y) ==
    IF x = NegInf THEN y
    ELSE IF y = NegInf THEN x
    ELSE IF x[2] >= y[2] THEN x ELSE y

RECURSIVE RowMax(_, _)
RowMax(row, n) == IF n = 1 THEN row[0] ELSE Larger(RowMax(row, n - 1), row[n - 1])

Len0(row) == Cardinality(DOMAIN row)

\* torch.nanmean(t, dim=-1): the mean of the entries that are not NaN
TorchNanMean(t) ==
    [b \in DOMAIN t |-> [e \in DOMAIN t[b] |->
        LET row == t[b][e]
            kept == {i \in DOMAIN row : row[i] # NaN}
            zeroed == [i \in DOMAIN row |-> IF i \in kept THEN row[i] ELSE Num(0)]
        IN  IF kept = {} THEN NaN
            ELSE Frac(RowSum(zeroed, Len0(row)), Cardinality(kept))]]

\* torch.sum(t, dim=-1)
TorchSum(t) ==
    [b \in DOMAIN t |-> [e \in DOMAIN t[b] |-> Num(RowSum(t[b][e], Len0(t[b][e])))]]

\* torch.prod(t, dim=-1)
TorchProd(t) ==
    [b \in DOMAIN t |-> [e \in DOMAIN t[b] |-> Num(RowProd(t[b][e], Len0(t[b][e])))]]

\* torch.max(t, dim=-1), the values
TorchMax(t) ==
    [b \in DOMAIN t |-> [e \in DOMAIN t[b] |-> RowMax(t[b][e], Len0(t[b][e]))]]

\* lines 274-277: every slot's embedding goes through light attention, an
\* opaque layer that exists only when cfg.model.lightattn is set
LightAttentionSlots ==
    /\ pc = "light_attention"
    /\ IF cfg.lightattn
       THEN \E v \in 0 .. MaxTable :
               /\ all_mpnn_embed' = EmbedTable(v, NumSlots)
               /\ la_out' = EmbedTable(v, NumSlots)
               /\ pc' = "stack"
               /\ err' = err
       ELSE /\ pc' = "raised"
            /\ err' = "AttributeError"
            /\ UNCHANGED <<all_mpnn_embed, la_out>>
    /\ UNCHANGED <<inputs, seqv, mask, mpnn_embed, slot, ddg, ret, featv, shapev>>

\* lines 279-284: stack, build the mask, assert slot 0 is visible everywhere
StackAndMask ==
    /\ pc = "stack"
    /\ IF \E b \in Batch : PaddingMask[b][0]
       THEN /\ pc' = "raised"
            /\ err' = "AssertionError"
            /\ all_mpnn_embed' = TorchStackLast(all_mpnn_embed)
            /\ mask' = PaddingMask
       ELSE /\ pc' = "aggregate"
            /\ err' = err
            /\ all_mpnn_embed' = TorchStackLast(all_mpnn_embed)
            /\ mask' = ExpandMask(PaddingMask)
    /\ UNCHANGED <<inputs, seqv, la_out, mpnn_embed, slot, ddg, ret, featv, shapev>>

\* lines 287-300: masked fill, then the reduction chosen by the configuration
Aggregate ==
    /\ pc = "aggregate"
    /\ IF cfg.aggregation = "mean"
       THEN /\ all_mpnn_embed' = MaskedFill(all_mpnn_embed, mask, NaN)
            /\ mpnn_embed' = TorchNanMean(all_mpnn_embed')
            /\ pc' = "aggregated" /\ err' = err
       ELSE IF cfg.aggregation = "sum"
       THEN /\ all_mpnn_embed' = MaskedFill(all_mpnn_embed, mask, Num(0))
            /\ mpnn_embed' = TorchSum(all_mpnn_embed')
            /\ pc' = "aggregated" /\ err' = err
       ELSE IF cfg.aggregation = "prod"
       THEN /\ all_mpnn_embed' = MaskedFill(all_mpnn_embed, mask, Num(1))
            /\ mpnn_embed' = TorchProd(all_mpnn_embed')
            /\ pc' = "aggregated" /\ err' = err
       ELSE IF cfg.aggregation = "max"
       THEN /\ all_mpnn_embed' = MaskedFill(all_mpnn_embed, mask, NegInf)
            /\ mpnn_embed' = TorchMax(all_mpnn_embed')
            /\ pc' = "aggregated" /\ err' = err
       ELSE /\ pc' = "raised"
            /\ err' = "ValueError"
            /\ UNCHANGED <<all_mpnn_embed, mpnn_embed>>
    /\ UNCHANGED <<inputs, seqv, la_out, mask, slot, ddg, ret, featv, shapev>>

\* the mutation of slot i of sample b when it is genuine: the three kinds
\* have one non-zero field each, rotated by the seed
GenuineTriple(b, i, seed) ==
    LET k == (b + i + seed) % 3
    IN  IF k = 0 THEN <<1, 0, 0>> ELSE IF k = 1 THEN <<0, 1, 0>> ELSE <<0, 0, 1>>

\* every configuration option of cfg.model, at its plainest value
BaseCfg ==
    [aggregation |-> "mean", num_final_layers |-> 1, mutant_embedding |-> FALSE,
     edges |-> FALSE, dist |-> FALSE, side_chain_module |-> FALSE,
     auxiliary_embedding |-> "none", lightattn |-> TRUE,
     subtract_mut |-> FALSE, single_target |-> FALSE]

\* The batch is drawn with every pattern of padded slots per sample (slot 0
\* included: the assertion then fails).
InitAgg ==
    /\ pc = "light_attention"
    /\ err = "none"
    /\ \E a \in Aggregations \cup {"median"}, la \in BOOLEAN :
          cfg = [BaseCfg EXCEPT !.aggregation = a, !.lightattn = la]
    /\ \E padded \in [Batch -> SUBSET Slots(MaxMut)], seed \in 0 .. 2 :
          LET m == [b \in Batch |-> [i \in Slots(MaxMut) |->
                       IF i \in padded[b] THEN <<0, 0, 0>> ELSE GenuineTriple(b, i, seed)]]
          IN  /\ mut_positions = [b \in Batch |-> [i \in Slots(MaxMut) |-> m[b][i][1]]]
              /\ mut_wildtype_AAs = [b \in Batch |-> [i \in Slots(MaxMut) |-> m[b][i][2]]]
              /\ mut_mutant_AAs = [b \in Batch |-> [i \in Slots(MaxMut) |-> m[b][i][3]]]
    /\ all_mpnn_embed = EmbedTable(0, MaxMut)
    /\ la_out = Unused /\ mask = Unused /\ mpnn_embed = Unused /\ slot = 0
    /\ IdleSeq /\ IdleHead /\ IdleFeat /\ IdleShape

NextAgg == LightAttentionSlots \/ StackAndMask \/ Aggregate

SpecAgg == InitAgg /\ [][NextAgg]_vars

\* the genuine (non-padding) slots of sample b
Genuine(b) == {i \in Slots(NumSlots) : ~IsPadding(b, i)}

RECURSIVE ProdOver(_, _)
ProdOver(f, D) ==
    IF D = {} THEN 1
    ELSE LET d == CHOOSE x \in D : TRUE
         IN  f[d] * ProdOver(f, D \ {d})

\* the mean / sum / product / maximum of the light-attention outputs of the
\* genuine slots of sample b at coordinate e
OverGenuine(a, b, e) ==
    LET val == [i \in Genuine(b) |-> la_out[i][b][e][2]]
    IN  IF a = "mean" THEN Frac(SumOver(val, Genuine(b)), Cardinality(Genuine(b)))
        ELSE IF a = "sum" THEN Num(SumOver(val, Genuine(b)))
        ELSE IF a = "prod" THEN Num(ProdOver(val, Genuine(b)))
        ELSE Num(CHOOSE x \in {val[i] : i \in Genuine(b)} :
                    \A i \in Genuine(b) : x >= val[i])

(***************************************************************************)
(* C1: with aggregation mean, sum, prod or max, the aggregated value of    *)
(* every sample and coordinate is the mean, sum, product or maximum of the *)
(* per-slot embedding values over exactly the non-padding slots of that    *)
(* sample; the values of padded slots do not enter.                        *)
(***************************************************************************)
C1_AggregateOverGenuineSlots ==
    pc = "aggregated" =>
        \A b \in Batch : \A e \in Coords :
            mpnn_embed[b][e] = OverGenuine(cfg.aggregation, b, e)

\* a batch that mixes a sample with a padded slot and a sample with none has
\* been aggregated, and the padded slot held a value other than 0 and 1
C1_Witness ==
    /\ pc = "aggregated"
    /\ \E b, c \in Batch :
          /\ Genuine(c) = Slots(NumSlots)
          /\ NumSlots > 1
          /\ \E i \in Slots(NumSlots) :
                /\ IsPadding(b, i)
                /\ \A e \in Coords : la_out[i][b][e] \notin {Num(0), Num(1)}

(***************************************************************************)
(* Mutation position gather of forward: lines 214-219 and 237 in the       *)
(* multi-mutation path, lines 329-330 in the single-mutation path.         *)
(*                                                                         *)
(* The whole-sequence embedding is the backbone's output: its entry for    *)
(* residue l of sample b at coordinate e is the symbolic value             *)
(* <<"emb", b, l, e>>, so that a gathered value shows where it came from.  *)
(***************************************************************************)
GatherLen == 3          \* L in the gather runs

\* the [B, L, E] tensor the backbone returns for a batch of sequences of length len
WholeSequenceEmbedding(len) ==
    [b \in Batch |-> [l \in 0 .. (len - 1) |-> [e \in Coords |-> <<"emb", b, l, e>>]]]

\* index.unsqueeze(-1).expand(index.size(0), index.size(1), width)
ExpandIndex(index) ==
    [b \in DOMAIN index |-> [j \in DOMAIN index[b] |-> [e \in Coords |-> index[b][j]]]]

\* a gather that reads every sample's row from sample 0
TorchGatherDim1FirstSample(input, index) ==
    [b \in DOMAIN index |-> [j \in DOMAIN index[b] |-> [e \in DOMAIN index[b][j] |->
        input[0][index[b][j][e]][e]]]]

\* torch.gather(input, 1, index) for 3-D tensors
TorchGatherDim1(input, index) ==
    [b \in DOMAIN index |-> [j \in DOMAIN index[b] |-> [e \in DOMAIN index[b][j] |->
        input[b][index[b][j][e]][e]]]]

\* torch.squeeze(t, 1): drops axis 1 when its size is 1, else leaves t as it is
TorchSqueeze1(t) ==
    IF \A b \in DOMAIN t : DOMAIN t[b] = {0}
    THEN [b \in DOMAIN t |-> t[b][0]]
    ELSE t

\* mut_positions[:, i:i+1]
SlotColumn(t, i) == [b \in DOMAIN t |-> [j \in {0} |-> t[b][i]]]

\* lines 215-219, 237: one iteration of the loop over slots
GatherSlot ==
    /\ pc = "gather"
    /\ cfg.aggregation # "None"
    /\ slot < NumSlots
    /\ LET current_positions == SlotColumn(mut_positions, slot)
           gathered_embed ==
               TorchSqueeze1(TorchGatherDim1(mpnn_embed, ExpandIndex(current_positions)))
       IN  all_mpnn_embed' = [i \in 0 .. slot |->
                                 IF i = slot THEN gathered_embed ELSE all_mpnn_embed[i]]
    /\ slot' = slot + 1
    /\ UNCHANGED <<pc, err, inputs, seqv, la_out, mask, mpnn_embed, ddg, ret, featv,
                   shapev>>

GatherLoopEnd ==
    /\ pc = "gather"
    /\ cfg.aggregation # "None"
    /\ slot = NumSlots
    /\ pc' = "gathered"
    /\ UNCHANGED <<err, inputs, seqv, aggv, slot, ddg, ret, featv, shapev>>

\* lines 329-330: the single-mutation path gathers all of mut_positions at once
GatherSingle ==
    /\ pc = "gather"
    /\ cfg.aggregation = "None"
    /\ mpnn_embed' = TorchSqueeze1(TorchGatherDim1(mpnn_embed, ExpandIndex(mut_positions)))
    /\ pc' = "gathered"
    /\ UNCHANGED <<err, inputs, seqv, la_out, all_mpnn_embed, mask, slot, ddg, ret,
                   featv, shapev>>

\* a batch of n slots per sample, every slot a substitution of amino acid 0
\* by amino acid 1; the position of slot i of sample b is p0 + b * sb + i * si
\* modulo len, for every choice of the three numbers in 0 .. len-1
DrawPositions(n, len) ==
    /\ \E p0, sb, si \in 0 .. (len - 1) :
          mut_positions = [b \in Batch |-> [i \in Slots(n) |-> (p0 + b * sb + i * si) % len]]
    /\ mut_wildtype_AAs = [b \in Batch |-> [i \in Slots(n) |-> 0]]
    /\ mut_mutant_AAs = [b \in Batch |-> [i \in Slots(n) |-> 1]]

InitGather ==
    /\ pc = "gather"
    /\ err = "none"
    /\ \/ /\ cfg = [BaseCfg EXCEPT !.aggregation = "None"]
          /\ DrawPositions(1, GatherLen)
       \/ /\ \E a \in Aggregations : cfg = [BaseCfg EXCEPT !.aggregation = a]
          /\ \E n \in 1 .. MaxMut : DrawPositions(n, GatherLen)
    /\ mpnn_embed = WholeSequenceEmbedding(GatherLen)
    /\ all_mpnn_embed = <<>>
    /\ slot = 0
    /\ la_out = Unused /\ mask = Unused
    /\ IdleSeq /\ IdleHead /\ IdleFeat /\ IdleShape

NextGather == GatherSlot \/ GatherLoopEnd \/ GatherSingle

SpecGather == InitGather /\ [][NextGather]_vars

(***************************************************************************)
(* C2: the embedding vector gathered for slot i of sample b is row         *)
(* mut_positions[b,i] of sample b's own whole-sequence embedding, in the   *)
(* single-mutation path and in every iteration of the multi-mutation path. *)
(***************************************************************************)
C2_GatherOwnRow ==
    /\ (pc = "gather" /\ cfg.aggregation # "None") =>
          \A i \in DOMAIN all_mpnn_embed : \A b \in Batch :
              all_mpnn_embed[i][b] = WholeSequenceEmbedding(GatherLen)[b][mut_positions[b][i]]
    /\ (pc = "gathered" /\ cfg.aggregation # "None") =>
          \A i \in Slots(NumSlots) : \A b \in Batch :
              all_mpnn_embed[i][b] = WholeSequenceEmbedding(GatherLen)[b][mut_positions[b][i]]
    /\ (pc = "gathered" /\ cfg.aggregation = "None") =>
          \A b \in Batch :
              mpnn_embed[b] = WholeSequenceEmbedding(GatherLen)[b][mut_positions[b][0]]

\* both paths have gathered for a batch whose samples mutate different
\* positions, and a multi-mutation sample has two slots at different positions
C2_WitnessMulti ==
    /\ pc = "gathered" /\ cfg.aggregation # "None" /\ NumSlots > 1
    /\ \E b, c \in Batch : mut_positions[b][0] # mut_positions[c][0]
    /\ \E b \in Batch : mut_positions[b][0] # mut_positions[b][1]

(***************************************************************************)
(* _set_model_dims (lines 358-386) and the prediction head's output        *)
(* indexing in forward (lines 346-356).                                    *)
(***************************************************************************)
HIDDEN_DIM == 128
SEQ_EMBED_DIM == 128
MUT_EMBED_DIM == 128
EDGE_DIM == 128
DIST_DIM == 25
SIDE_CHAIN_DIM == 128
GLOBAL_DIM == 128
ESM_DIM == 320
VOCAB_AA == 21

\* _set_model_dims: (HIDDEN_DIM, EMBED_DIM, VOCAB_DIM) for configuration c
SetModelDims(c) ==
    [HIDDEN_DIM |-> HIDDEN_DIM,
     EMBED_DIM |->
         SEQ_EMBED_DIM
         + (IF c.mutant_embedding THEN MUT_EMBED_DIM ELSE 0)
         + (IF c.edges THEN EDGE_DIM ELSE IF c.dist THEN DIST_DIM ELSE 0)
         + (IF c.side_chain_module THEN SIDE_CHAIN_DIM ELSE 0)
         + (IF c.auxiliary_embedding = "globalMPNN" THEN GLOBAL_DIM
            ELSE IF c.auxiliary_embedding = "localESM" THEN ESM_DIM ELSE 0),
     VOCAB_DIM |-> IF ~c.single_target THEN VOCAB_AA ELSE 1]

\* the output of ddg_out, an opaque network: table v gives sample b the
\* score HeadValue(v, b, a) at output a; distinct outputs get distinct scores
HeadValue(v, b, a) == 2000 * b + (v + 1) * a * a + a

HeadTable(v, width) ==
    [b \in Batch |-> [a \in 0 .. (width - 1) |-> HeadValue(v, b, a)]]

\* whether torch.gather(input, 1, index) finds every index inside input
GatherInRange(input, index) ==
    \A b \in DOMAIN index : \A j \in DOMAIN index[b] : index[b][j] \in DOMAIN input[b]

\* elementwise a - b of two [B, N] tensors
TensorDiff(a, b) == [x \in DOMAIN a |-> [j \in DOMAIN a[x] |-> a[x][j] - b[x][j]]]

\* an indexing that reads the wild-type score where the mutant's is meant
IndexOutputByWildType(head, c) ==
    IF c.subtract_mut
    THEN TensorDiff(TorchGather2(head, mut_wildtype_AAs),
                    TorchGather2(head, mut_mutant_AAs))
    ELSE IF c.single_target
    THEN head
    ELSE TorchGather2(head, mut_wildtype_AAs)

\* lines 349-354: the returned tensor, when no gather is out of range
IndexOutput(head, c) ==
    IF c.subtract_mut
    THEN TensorDiff(TorchGather2(head, mut_mutant_AAs),
                    TorchGather2(head, mut_wildtype_AAs))
    ELSE IF c.single_target
    THEN head
    ELSE TorchGather2(head, mut_mutant_AAs)

\* whether lines 349-354 raise: a gather with an index outside the head's width
IndexOutputRaises(head, c) ==
    IF c.subtract_mut
    THEN ~(GatherInRange(head, mut_mutant_AAs) /\ GatherInRange(head, mut_wildtype_AAs))
    ELSE IF c.single_target
    THEN FALSE
    ELSE ~GatherInRange(head, mut_mutant_AAs)

\* line 346: ddg = self.ddg_out(mpnn_embed), as wide as VOCAB_DIM
HeadOutput ==
    /\ pc = "ddg_out"
    /\ \E v \in 0 .. MaxTable : ddg' = HeadTable(v, SetModelDims(cfg).VOCAB_DIM)
    /\ pc' = "index"
    /\ UNCHANGED <<err, inputs, seqv, aggv, slot, ret, featv, shapev>>

\* lines 349-356
IndexAndReturn ==
    /\ pc = "index"
    /\ IF IndexOutputRaises(ddg, cfg)
       THEN /\ pc' = "raised"
            /\ err' = "RuntimeError"
            /\ ret' = ret
       ELSE /\ pc' = "returned"
            /\ err' = err
            /\ ret' = IndexOutput(ddg, cfg)
    /\ UNCHANGED <<inputs, seqv, aggv, slot, ddg, featv, shapev>>

\* amino acid k of the drawn inputs: 0 .. MaxAA-1 and the last of the vocabulary
AAOf(k) == IF k = MaxAA THEN VOCAB_AA - 1 ELSE k

\* A batch of n slots per sample whose wild-type and mutant amino acids run
\* through AAOf from two seeds, so that slots with equal and with different
\* wild type and mutant both occur.
DrawAminoAcids(n, ws, ms) ==
    /\ mut_positions = [b \in Batch |-> [j \in Slots(n) |-> j + 1]]
    /\ mut_wildtype_AAs =
          [b \in Batch |-> [j \in Slots(n) |-> AAOf((ws + b + 2 * j) % (MaxAA + 1))]]
    /\ mut_mutant_AAs =
          [b \in Batch |-> [j \in Slots(n) |-> AAOf((ms + 2 * b + j) % (MaxAA + 1))]]

InitHead ==
    /\ pc = "ddg_out"
    /\ err = "none"
    /\ \E sub \in BOOLEAN, single \in BOOLEAN, ws \in AAs, ms \in AAs :
          \/ /\ cfg = [BaseCfg EXCEPT !.aggregation = "None", !.subtract_mut = sub,
                                      !.single_target = single]
             /\ DrawAminoAcids(1, ws, ms)
          \/ /\ \E a \in Aggregations :
                   cfg = [BaseCfg EXCEPT !.aggregation = a, !.subtract_mut = sub,
                                         !.single_target = single]
             /\ \E n \in 1 .. MaxMut : DrawAminoAcids(n, ws, ms)
    /\ ddg = Unused /\ ret = Unused
    /\ IdleSeq /\ IdleAgg /\ IdleFeat /\ IdleShape

NextHead == HeadOutput \/ IndexAndReturn

SpecHead == InitHead /\ [][NextHead]_vars

(***************************************************************************)
(* C3: when single_target is not set, the value returned for slot j of     *)
(* sample b is head[b, mut] by default and head[b, mut] - head[b, wt]      *)
(* under subtract_mut, head being the 21-wide output of ddg_out; a slot    *)
(* whose mutant equals its wild type then yields 0 under subtract_mut, and *)
(* the returned tensor has the shape of mut_mutant_AAs.                    *)
(***************************************************************************)
C3_IndexedByAminoAcid ==
    (pc \in {"returned", "raised"} /\ ~cfg.single_target) =>
        /\ pc = "returned"
        /\ DOMAIN ret = DOMAIN mut_mutant_AAs
        /\ \A b \in Batch :
              /\ DOMAIN ddg[b] = 0 .. (VOCAB_AA - 1)
              /\ DOMAIN ret[b] = DOMAIN mut_mutant_AAs[b]
              /\ \A j \in DOMAIN ret[b] :
                    /\ ret[b][j] = IF cfg.subtract_mut
                                   THEN ddg[b][mut_mutant_AAs[b][j]]
                                        - ddg[b][mut_wildtype_AAs[b][j]]
                                   ELSE ddg[b][mut_mutant_AAs[b][j]]
                    /\ (cfg.subtract_mut /\ mut_mutant_AAs[b][j] = mut_wildtype_AAs[b][j])
                          => ret[b][j] = 0

\* a batch with several slots has been returned under subtract_mut, one slot
\* with mutant equal to wild type and one with the two different
C3_Witness ==
    /\ pc = "returned" /\ ~cfg.single_target /\ cfg.subtract_mut
    /\ NumSlots > 1
    /\ \E b \in Batch, j \in Slots(NumSlots) :
          mut_mutant_AAs[b][j] = mut_wildtype_AAs[b][j]
    /\ \E b \in Batch, j \in Slots(NumSlots) :
          mut_mutant_AAs[b][j] # mut_wildtype_AAs[b][j] /\ ret[b][j] # 0

(***************************************************************************)
(* C4: in every configuration with single_target set, the head has a       *)
(* single output (VOCAB_DIM = 1) and forward returns ddg_out's score per   *)
(* sample as it is, not indexed by an amino acid.                          *)
(***************************************************************************)
C4_SingleTargetReturnsScore ==
    (pc \in {"returned", "raised"} /\ cfg.single_target) =>
        /\ SetModelDims(cfg).VOCAB_DIM = 1
        /\ pc = "returned"
        /\ ret = ddg

(***************************************************************************)
(* The whole of __init__ and forward at the level of tensor shapes and     *)
(* exceptions: which tensors exist, how wide they are, and which statement *)
(* raises.  Here `shape` holds the widths forward has built and `dims`     *)
(* what __init__ built.  The backbone returns at least num_final_layers    *)
(* hidden tensors of width HIDDEN_DIM, an embedding of width SEQ_EMBED_DIM *)
(* and edges of width EDGE_DIM; esm_emb is ESM_DIM wide.                   *)
(***************************************************************************)
MaxFinalLayers == 2     \* num_final_layers is drawn from 0 .. MaxFinalLayers

AuxiliaryEmbeddings == {"none", "globalMPNN", "localESM"}

\* the input width __init__ gives light attention, the layer norm and the
\* first linear layer (lines 73, 89, 105)
InputWidth(c) ==
    SetModelDims(c).HIDDEN_DIM * c.num_final_layers + SetModelDims(c).EMBED_DIM

\* lines 58-112.  nn.Sequential takes modules, not a list of them: with
\* aggregation 'mpnn' line 82 raises TypeError and no model is built.
Construct ==
    /\ pc = "init"
    /\ IF cfg.aggregation = "mpnn"
       THEN /\ pc' = "init_raised"
            /\ err' = "TypeError"
            /\ dims' = dims
       ELSE /\ pc' = "forward"
            /\ err' = err
            /\ dims' = [multi_mutations |-> cfg.aggregation # "None",
                        in_width |-> InputWidth(cfg),
                        vocab |-> SetModelDims(cfg).VOCAB_DIM,
                        light_attention |-> cfg.lightattn,
                        dist_norm |-> cfg.dist]
    /\ UNCHANGED <<inputs, seqv, aggv, slot, ddg, ret, featv, shape>>

\* lines 131-212: the multi-mutation path's whole-sequence embedding, mutant
\* embeddings and edge or distance features
ForwardMultiFeatures ==
    /\ pc = "forward"
    /\ dims.multi_mutations
    /\ IF cfg.num_final_layers > 0
       THEN LET base == [shape EXCEPT
                            !.embed_w = HIDDEN_DIM * cfg.num_final_layers + SEQ_EMBED_DIM,
                            !.mut_embed = cfg.mutant_embedding]
            IN  IF (cfg.edges \/ cfg.dist) /\ NumSlots = 1
                THEN \* torch.stack of an empty list (line 176 or line 212)
                     /\ pc' = "raised"
                     /\ err' = "RuntimeError"
                     /\ shape' = base
                ELSE /\ pc' = "gather"
                     /\ err' = err
                     /\ shape' = IF cfg.edges
                                 THEN [base EXCEPT !.edges = "per_slot"]
                                 ELSE IF cfg.dist
                                 THEN [base EXCEPT !.dist_n = NumSlots * (NumSlots - 1)]
                                 ELSE base
       ELSE /\ pc' = "gather"
            /\ err' = err
            /\ shape' = [shape EXCEPT !.embed_w = SEQ_EMBED_DIM]
    /\ UNCHANGED <<inputs, seqv, aggv, slot, ddg, ret, featv, dims>>

\* lines 214-237: the per-slot embedding, every slot built alike
ForwardMultiGather ==
    /\ pc = "gather"
    /\ dims.multi_mutations
    /\ IF cfg.mutant_embedding /\ ~shape.mut_embed
       THEN \* line 222 reads mut_embed, which line 145 never assigned
            /\ pc' = "raised" /\ err' = "UnboundLocalError" /\ shape' = shape
       ELSE IF cfg.edges /\ shape.edges = "raw"
       THEN \* line 226 concatenates a [B, L, 128] slice of the backbone's edges
            /\ pc' = "raised" /\ err' = "RuntimeError" /\ shape' = shape
       ELSE IF ~cfg.edges /\ cfg.dist /\ shape.dist_n = 0
       THEN \* line 230 reads dX_all_agg, which line 212 never assigned
            /\ pc' = "raised" /\ err' = "UnboundLocalError" /\ shape' = shape
       ELSE /\ pc' = "built"
            /\ err' = err
            /\ shape' = [shape EXCEPT !.combined_w =
                            shape.embed_w
                            + (IF cfg.mutant_embedding THEN MUT_EMBED_DIM ELSE 0)
                            + (IF cfg.edges THEN EDGE_DIM
                               ELSE IF cfg.dist THEN DIST_DIM ELSE 0)
                            + (IF cfg.side_chain_module THEN SIDE_CHAIN_DIM ELSE 0)]
    /\ UNCHANGED <<inputs, seqv, aggv, slot, ddg, ret, featv, dims>>

\* lines 272-300: light attention on every slot, the mask and its assertion,
\* then the aggregation
ForwardMultiAggregate ==
    /\ pc = "built"
    /\ dims.multi_mutations
    /\ IF ~dims.light_attention
       THEN pc' = "raised" /\ err' = "AttributeError"
       ELSE IF shape.combined_w # dims.in_width
       THEN pc' = "raised" /\ err' = "RuntimeError"
       ELSE IF \E b \in Batch : PaddingMask[b][0]
       THEN pc' = "raised" /\ err' = "AssertionError"
       ELSE IF cfg.aggregation \notin Aggregations
       THEN pc' = "raised" /\ err' = "ValueError"
       ELSE pc' = "ddg_out" /\ err' = err
    /\ UNCHANGED <<inputs, seqv, aggv, slot, ddg, ret, featv, shapev>>

\* lines 302-340: the single-mutation path's concatenation and gather
ForwardSingle ==
    /\ pc = "forward"
    /\ ~dims.multi_mutations
    /\ LET gathered_w ==
               IF cfg.num_final_layers > 0
               THEN HIDDEN_DIM * cfg.num_final_layers + SEQ_EMBED_DIM
                    + (IF cfg.mutant_embedding THEN MUT_EMBED_DIM ELSE 0)
                    + (IF cfg.edges THEN EDGE_DIM ELSE 0)
                    + (IF cfg.side_chain_module THEN SIDE_CHAIN_DIM ELSE 0)
               ELSE SEQ_EMBED_DIM
       IN  IF cfg.auxiliary_embedding = "globalMPNN" /\ cfg.num_final_layers = 0
           THEN \* line 332 indexes the list all_mpnn_hid with a tuple
                /\ pc' = "raised" /\ err' = "TypeError"
                /\ shape' = [shape EXCEPT !.embed_w = gathered_w]
           ELSE /\ pc' = "built" /\ err' = err
                /\ shape' = [shape EXCEPT
                                !.embed_w = gathered_w,
                                !.combined_w =
                                    gathered_w
                                    + (IF cfg.auxiliary_embedding = "globalMPNN"
                                       THEN GLOBAL_DIM
                                       ELSE IF cfg.auxiliary_embedding = "localESM"
                                       THEN ESM_DIM ELSE 0)]
    /\ UNCHANGED <<inputs, seqv, aggv, slot, ddg, ret, featv, dims>>

\* lines 342-346: light attention when configured, then the first layer of
\* ddg_out; both were built for dims.in_width
ForwardSingleLayers ==
    /\ pc = "built"
    /\ ~dims.multi_mutations
    /\ IF shape.combined_w # dims.in_width
       THEN pc' = "raised" /\ err' = "RuntimeError"
       ELSE pc' = "ddg_out" /\ err' = err
    /\ UNCHANGED <<inputs, seqv, aggv, slot, ddg, ret, featv, shapev>>

\* a batch of n slots per sample; with pad0 the first slot of sample 0 is
\* the padding triple (0, 0, 0)
DrawSlots(n, pad0) ==
    /\ mut_positions =
          [b \in Batch |-> [j \in Slots(n) |-> IF pad0 /\ b = 0 /\ j = 0 THEN 0 ELSE j + 1]]
    /\ mut_wildtype_AAs = [b \in Batch |-> [j \in Slots(n) |-> 0]]
    /\ mut_mutant_AAs =
          [b \in Batch |-> [j \in Slots(n) |->
              IF pad0 /\ b = 0 /\ j = 0 THEN 0 ELSE AAOf((1 + b + j) % (MaxAA + 1))]]

Configurations ==
    [aggregation : Aggregations \cup {"None", "mpnn", "median"},
     num_final_layers : 0 .. MaxFinalLayers,
     mutant_embedding : BOOLEAN, edges : BOOLEAN, dist : BOOLEAN,
     side_chain_module : BOOLEAN, auxiliary_embedding : AuxiliaryEmbeddings,
     lightattn : BOOLEAN, subtract_mut : BOOLEAN, single_target : BOOLEAN]

InitShape ==
    /\ pc = "init"
    /\ err = "none"
    /\ cfg \in Configurations
    /\ \E n \in 1 .. MaxMut, pad0 \in BOOLEAN :
          /\ cfg.aggregation = "None" => n = 1
          /\ DrawSlots(n, pad0)
    /\ dims = Unused
    /\ shape = [embed_w |-> 0, combined_w |-> 0, mut_embed |-> FALSE,
                edges |-> "raw", dist_n |-> 0]
    /\ IdleSeq /\ IdleAgg /\ IdleHead /\ IdleFeat

NextShape ==
    \/ Construct
    \/ ForwardMultiFeatures
    \/ ForwardMultiGather
    \/ ForwardMultiAggregate
    \/ ForwardSingle
    \/ ForwardSingleLayers
    \/ HeadOutput
    \/ IndexAndReturn

SpecShape == InitShape /\ [][NextShape]_vars

\* the first slot of every sample is a genuine mutation
FirstSlotGenuine == \A b \in Batch : ~IsPadding(b, 0)

(***************************************************************************)
(* C5: with an aggregation that is neither None nor one of mean, sum,      *)
(* prod, max, mpnn, and whatever the other options are, a call to forward  *)
(* ends in the ValueError of line 300 and returns no prediction.           *)
(***************************************************************************)
C5_InvalidAggregationRaisesValueError ==
    (/\ cfg.aggregation \notin Aggregations \cup {"None", "mpnn"}
     /\ FirstSlotGenuine
     /\ pc \in {"returned", "raised"})
        => (pc = "raised" /\ err = "ValueError")

\* the options C6 does not vary are at values forward works with
OtherOptionsWork ==
    /\ cfg.lightattn
    /\ cfg.num_final_layers > 0
    /\ cfg.auxiliary_embedding = "none"
    /\ ~(cfg.subtract_mut /\ cfg.single_target)

(***************************************************************************)
(* C6: in multi-mutation mode forward completes and returns a prediction   *)
(* for any number N >= 1 of mutation slots and every combination of the    *)
(* edges and dist options: no slot count makes it raise.                   *)
(***************************************************************************)
C6_MultiModeNeverRaises ==
    (/\ cfg.aggregation \in Aggregations
     /\ OtherOptionsWork
     /\ FirstSlotGenuine)
        => pc # "raised"

(***************************************************************************)
(* C8: in every configuration the width of the combined embedding forward  *)
(* builds and passes to light attention, the layer norm and ddg_out is the *)
(* input width fixed at construction, 128 * num_final_layers + EMBED_DIM.  *)
(***************************************************************************)
C8_CombinedWidthIsInputWidth ==
    pc = "built" =>
        /\ dims.in_width = HIDDEN_DIM * cfg.num_final_layers + SetModelDims(cfg).EMBED_DIM
        /\ shape.combined_w = dims.in_width

(***************************************************************************)
(* Distance features of the multi-mutation path: lines 186-212 build them, *)
(* lines 228-230 concatenate one to every slot.                            *)
(*                                                                         *)
(* Coordinates and distances are symbolic: atom a of residue l of sample b *)
(* is <<"atom", b, l, a>>, and the distance of two atoms is the pair of    *)
(* them, so that a feature shows which residues it was computed from.      *)
(***************************************************************************)
DistLen == 4            \* L in the distance runs
BACKBONE_ATOMS == 4     \* atoms per residue in X before _get_cbeta

\* X after _get_cbeta: [B, L, 1 + BACKBONE_ATOMS, 3], one symbol per atom
CoordsWithCbeta(len) ==
    [b \in Batch |-> [l \in 0 .. (len - 1) |->
        [a \in 0 .. BACKBONE_ATOMS |-> <<"atom", b, l, a>>]]]

\* batched_index_select(X, 1, index) for a [B, 1] index: [B, 1, A, 3]
BatchedIndexSelect1(input, index) ==
    [b \in DOMAIN index |-> [j \in DOMAIN index[b] |-> input[b][index[b][j]]]]

\* lines 200-208 for one target and one match: the [B, A ** 2] tensor of the
\* distances of every atom of the target to every atom of the match
PairDistances(target, match) ==
    [b \in DOMAIN target |->
        [k \in 0 .. ((BACKBONE_ATOMS + 1) * (BACKBONE_ATOMS + 1) - 1) |->
            <<"dist", target[b][0][k \div (BACKBONE_ATOMS + 1)],
                      match[b][0][k % (BACKBONE_ATOMS + 1)]>>]]

\* the slots other than n, in increasing order
RECURSIVE OthersFrom(_, _, _)
OthersFrom(n, from, count) ==
    IF from >= count THEN <<>>
    ELSE IF from = n THEN OthersFrom(n, from + 1, count)
    ELSE <<from>> \o OthersFrom(n, from + 1, count)

\* lines 191-209: one iteration of the loop over targets appends one
\* distance tensor per other slot
DistTarget ==
    /\ pc = "dist"
    /\ slot < NumSlots
    /\ LET target == BatchedIndexSelect1(X, SlotColumn(mut_positions, slot))
           n_other == OthersFrom(slot, 0, NumSlots)
       IN  dX_all_agg' = dX_all_agg \o
               [o \in 1 .. Len(n_other) |->
                   PairDistances(target,
                       BatchedIndexSelect1(X, SlotColumn(mut_positions, n_other[o])))]
    /\ slot' = slot + 1
    /\ UNCHANGED <<pc, err, inputs, seqv, aggv, ddg, ret, X, mpnn_edges, shapev>>

\* line 212: torch.stack(dX_all_agg, dim=-1), which raises on an empty list.
\* The stacked tensor is kept as the list of its last-axis entries.
DistStack ==
    /\ pc = "dist"
    /\ slot = NumSlots
    /\ IF dX_all_agg = <<>>
       THEN pc' = "raised" /\ err' = "RuntimeError" /\ slot' = slot
       ELSE pc' = "dist_gather" /\ err' = err /\ slot' = 0
    /\ UNCHANGED <<inputs, seqv, aggv, ddg, ret, featv, shapev>>

\* lines 228-230 within the loop of line 215: slot i is given the layer
\* norm of entry i of the stacked tensor's last axis
DistGatherSlot ==
    /\ pc = "dist_gather"
    /\ slot < NumSlots
    /\ all_mpnn_embed' = [i \in 0 .. slot |->
          IF i = slot
          THEN [b \in Batch |-> <<"dist_norm", dX_all_agg[slot + 1][b]>>]
          ELSE all_mpnn_embed[i]]
    /\ slot' = slot + 1
    /\ UNCHANGED <<pc, err, inputs, seqv, la_out, mask, mpnn_embed, ddg, ret, featv,
                   shapev>>

DistGatherEnd ==
    /\ pc = "dist_gather"
    /\ slot = NumSlots
    /\ pc' = "gathered"
    /\ UNCHANGED <<err, inputs, seqv, aggv, slot, ddg, ret, featv, shapev>>

\* n genuine slots per sample at distinct positions drawn in 0 .. len-1
DrawDistinctPositions(n, len) ==
    /\ mut_positions \in {p \in [Batch -> [Slots(n) -> 0 .. (len - 1)]] :
                             \A b \in Batch : \A i, j \in Slots(n) :
                                 i # j => p[b][i] # p[b][j]}
    /\ mut_wildtype_AAs = [b \in Batch |-> [i \in Slots(n) |-> 0]]
    /\ mut_mutant_AAs = [b \in Batch |-> [i \in Slots(n) |-> 1]]

InitDist ==
    /\ pc = "dist"
    /\ err = "none"
    /\ \E a \in Aggregations : cfg = [BaseCfg EXCEPT !.aggregation = a, !.dist = TRUE]
    /\ \E n \in 1 .. (MaxMut + 1) : DrawDistinctPositions(n, DistLen)
    /\ X = CoordsWithCbeta(DistLen)
    /\ dX_all_agg = <<>>
    /\ mpnn_edges = Unused
    /\ all_mpnn_embed = <<>>
    /\ slot = 0
    /\ la_out = Unused /\ mask = Unused /\ mpnn_embed = Unused
    /\ IdleSeq /\ IdleHead /\ IdleShape

NextDist == DistTarget \/ DistStack \/ DistGatherSlot \/ DistGatherEnd

SpecDist == InitDist /\ [][NextDist]_vars

\* the residues a distance was computed between
ResiduesOf(d) == {d[2][3], d[3][3]}

(***************************************************************************)
(* C9: in dist mode with N >= 2 slots the stacked distance tensor has      *)
(* exactly N entries on its last axis, and the distance feature of slot i  *)
(* of sample b is computed only from distances between the residue at      *)
(* mut_positions[b,i] and the other mutated residues of the sample.        *)
(***************************************************************************)
C9_DistFeatureInvolvesOwnSlot ==
    /\ pc \in {"dist_gather", "gathered"} => Len(dX_all_agg) = NumSlots
    /\ pc = "gathered" =>
          \A i \in Slots(NumSlots) : \A b \in Batch :
              \A k \in DOMAIN all_mpnn_embed[i][b][2] :
                  LET d == all_mpnn_embed[i][b][2][k]
                  IN  /\ mut_positions[b][i] \in ResiduesOf(d)
                      /\ ResiduesOf(d) \subseteq {mut_positions[b][n] : n \in Slots(NumSlots)}

(***************************************************************************)
(* Edge features of the multi-mutation path: _dist (lines 20-27) and       *)
(* lines 147-184 of forward.                                               *)
(*                                                                         *)
(* Residues lie on a line: X[b][l] is the coordinate of residue l's atom.  *)
(* The backbone's edge tensor is symbolic: the edge of residue l of sample *)
(* b to its k-th neighbour is <<"edge", b, l, k>>.  A mean of edges is     *)
(* kept as the list of the edges averaged, the zero vector as <<"zero">>.  *)
(***************************************************************************)
EdgeLen == 50           \* L in the edge runs: more residues than TOP_K
TOP_K == 48             \* _dist's default top_k

\* D of line 23, up to the increasing map d -> sqrt(d + eps): the squared
\* distance of residues i and j of sample b, plus one, times mask_2D
MaskedDistance(x, msk, b, i, j) ==
    (msk[b][i] * msk[b][j]) * ((x[b][i] - x[b][j]) * (x[b][i] - x[b][j]) + 1)

\* D_max of line 24
RowMaxDistance(x, msk, b, i) ==
    LET row == {MaskedDistance(x, msk, b, i, j) : j \in DOMAIN x[b]}
    IN  CHOOSE m \in row : \A d \in row : m >= d

\* D_adjust of line 25, given the row's D_max
AdjustedDistance(x, msk, b, i, j, d_max) ==
    MaskedDistance(x, msk, b, i, j) + (1 - msk[b][i] * msk[b][j]) * d_max

\* the adjusted distances of row i of sample b, residue j at place j + 1
DistanceRow(x, msk, b, i) ==
    LET len == Cardinality(DOMAIN x[b])
        d_max == RowMaxDistance(x, msk, b, i)
    IN  SubSeq([j \in 1 .. len |-> AdjustedDistance(x, msk, b, i, j - 1, d_max)], 1, len)

\* the number of residues that come before residue j when a row of
\* distances is sorted increasingly, equal distances in index order
RankInRow(row, j) ==
    Cardinality({h \in 1 .. Len(row) :
        row[h] < row[j + 1] \/ (row[h] = row[j + 1] /\ h < j + 1)})

\* the residues of a row of distances, sorted by distance
SortedByDistance(row) ==
    LET ranks == SubSeq([j \in 1 .. Len(row) |-> RankInRow(row, j - 1)], 1, Len(row))
    IN  SubSeq([k \in 1 .. Len(row) |->
                   (CHOOSE j \in 1 .. Len(row) : ranks[j] = k - 1) - 1], 1, Len(row))

Min2(a, b) == IF a <= b THEN a ELSE b

\* E_idx of _dist(X, mask, top_k=top_k): [B, L, min(top_k, L)], the entry
\* for neighbour k (from 0) of a row being element k + 1 of the row's tuple
Dist_E_idx(x, msk, top_k) ==
    [b \in DOMAIN x |-> [i \in DOMAIN x[b] |->
        SubSeq(SortedByDistance(DistanceRow(x, msk, b, i)), 1,
               Min2(top_k, Cardinality(DOMAIN x[b])))]]

\* the place of residue j in row i of the fully sorted distances
NeighbourRank(x, msk, b, i, j) == RankInRow(DistanceRow(x, msk, b, i), j)

\* torch.where(row == q)[1]: the places (from 0) of q in a neighbour row,
\* in increasing order
WhereEqual(row, q) ==
    LET hits == {k \in DOMAIN row : row[k] = q}
    IN  [n \in 1 .. Cardinality(hits) |->
            (CHOOSE k \in hits : Cardinality({h \in hits : h < k}) = n - 1) - 1]

\* lines 167-173 for slots n_current and n_o of sample b: the edge found, or
\* the NaN edge
EdgeToOther(e_idx, b, n_current, n_o) ==
    LET idx == WhereEqual(e_idx[b][mut_positions[b][n_current]], mut_positions[b][n_o])
    IN  IF Len(idx) = 0 THEN NaN
        ELSE <<"edge", b, mut_positions[b][n_current], idx[1]>>

\* lines 176-178: nanmean over the stacked edges, NaN replaced by 0
EdgeNanMean(tmp_edges) ==
    LET valid == SelectSeq(tmp_edges, LAMBDA e : e # NaN)
    IN  IF valid = <<>> THEN <<"zero">> ELSE <<"mean", valid>>

\* lines 155-182: one iteration of the loop over slots builds edges_compiled
EdgesForSlot ==
    /\ pc = "edges"
    /\ slot < NumSlots
    /\ LET E_idx == Dist_E_idx(X, [b \in Batch |-> [l \in DOMAIN X[b] |-> 1]], TOP_K)
           n_other == OthersFrom(slot, 0, NumSlots)
       IN  IF n_other = <<>>
           THEN \* line 176: torch.stack of an empty list
                /\ pc' = "raised" /\ err' = "RuntimeError"
                /\ UNCHANGED <<mpnn_edges, slot>>
           ELSE /\ mpnn_edges' = mpnn_edges \o
                      << [b \in Batch |->
                            EdgeNanMean([o \in 1 .. Len(n_other) |->
                                EdgeToOther(E_idx, b, slot, n_other[o])])] >>
                /\ slot' = slot + 1
                /\ UNCHANGED <<pc, err>>
    /\ UNCHANGED <<inputs, seqv, aggv, ddg, ret, X, dX_all_agg, shapev>>

\* line 184, and line 226 within the loop of line 215: slot i is given
\* entry i of the stacked edge features
EdgesGather ==
    /\ pc = "edges"
    /\ slot = NumSlots
    /\ all_mpnn_embed' = [i \in Slots(NumSlots) |-> mpnn_edges[i + 1]]
    /\ pc' = "gathered"
    /\ UNCHANGED <<err, inputs, seqv, la_out, mask, mpnn_embed, slot, ddg, ret, featv,
                   shapev>>

\* the positions mutations are drawn at: the first three and the last residue
EdgePositions == {0, 1, 2, EdgeLen - 1}

\* n slots per sample: slot 0 genuine, later slots genuine or padding, the
\* genuine slots at distinct positions of EdgePositions
DrawEdgeSlots(n) ==
    \E p \in [Batch -> [Slots(n) -> EdgePositions \cup {-1}]] :
        /\ \A b \in Batch : p[b][0] # -1
        /\ \A b \in Batch : \A i, j \in Slots(n) :
              (i # j /\ p[b][i] # -1) => p[b][i] # p[b][j]
        /\ mut_positions = [b \in Batch |-> [i \in Slots(n) |->
                               IF p[b][i] = -1 THEN 0 ELSE p[b][i]]]
        /\ mut_wildtype_AAs = [b \in Batch |-> [i \in Slots(n) |-> 0]]
        /\ mut_mutant_AAs = [b \in Batch |-> [i \in Slots(n) |->
                                IF p[b][i] = -1 THEN 0 ELSE 1]]

\* residue l of sample b sits at l squared, counted from the first residue
\* or, with flip, from the last: no residue has two equally near neighbours
\* among the rows used
LineCoordinates(flip) ==
    [b \in Batch |-> [l \in 0 .. (EdgeLen - 1) |->
        IF (flip + b) % 2 = 0 THEN l * l
        ELSE (EdgeLen - 1 - l) * (EdgeLen - 1 - l)]]

InitEdges ==
    /\ pc = "edges"
    /\ err = "none"
    /\ \E a \in {"mean", "max"} : cfg = [BaseCfg EXCEPT !.aggregation = a, !.edges = TRUE]
    /\ \E n \in 1 .. MaxMut : DrawEdgeSlots(n)
    /\ \E flip \in {0, 1} : X = LineCoordinates(flip)
    /\ mpnn_edges = <<>>
    /\ dX_all_agg = Unused
    /\ all_mpnn_embed = <<>>
    /\ slot = 0
    /\ la_out = Unused /\ mask = Unused /\ mpnn_embed = Unused
    /\ IdleSeq /\ IdleHead /\ IdleShape

NextEdges == EdgesForSlot \/ EdgesGather

SpecEdges == InitEdges /\ [][NextEdges]_vars

\* the other mutated residues of sample b that are neighbours of slot i's residue
MutatedNeighbours(b, i) ==
    {q \in {mut_positions[b][n] : n \in Genuine(b) \ {i}} :
        NeighbourRank(X, [c \in Batch |-> [l \in DOMAIN X[c] |-> 1]], b,
                      mut_positions[b][i], q) < TOP_K}

\* whether feature f is the mean of the edges of slot i's residue to the
\* residues of `to`: the zero vector when there are none, else a mean in
\* which every one of them weighs the same
IsMeanOfEdgesTo(f, b, i, to) ==
    IF to = {} THEN f = <<"zero">>
    ELSE /\ f[1] = "mean"
         /\ {f[2][k] : k \in DOMAIN f[2]} =
               {<<"edge", b, mut_positions[b][i],
                  NeighbourRank(X, [c \in Batch |-> [l \in DOMAIN X[c] |-> 1]], b,
                                mut_positions[b][i], q)>> : q \in to}
         /\ \A e1, e2 \in {f[2][k] : k \in DOMAIN f[2]} :
               Cardinality({k \in DOMAIN f[2] : f[2][k] = e1})
                   = Cardinality({k \in DOMAIN f[2] : f[2][k] = e2})

(***************************************************************************)
(* C10: in edges mode the edge feature of slot i of sample b is the mean,  *)
(* over the other mutated residues of the sample that are in the neighbour *)
(* list of residue mut_positions[b,i], of the backbone edge from that      *)
(* residue to that neighbour, and the zero vector when there is none; a    *)
(* padded slot is not a mutated residue and contributes no edge.           *)
(***************************************************************************)
C10_EdgeFeatureOverMutatedNeighbours ==
    pc = "gathered" =>
        \A b \in Batch : \A i \in Genuine(b) :
            IsMeanOfEdgesTo(all_mpnn_embed[i][b], b, i, MutatedNeighbours(b, i))

(***************************************************************************)
(* The multi-mutation path from the features to the aggregated embedding   *)
(* (lines 147-298), called twice by the same caller: the second call has   *)
(* two genuine slots of one sample exchanged.                              *)
(*                                                                         *)
(* A slot's combined embedding is kept as the record of the parts that     *)
(* torch.cat joins.  Light attention is an opaque layer with fixed         *)
(* weights: a function of the combined embedding, the same in both calls.  *)
(* num_final_layers is 1 in these runs.                                    *)
(***************************************************************************)
PermLen == 3            \* L in the exchange runs

\* the coordinate of an atom's residue on the line: residue l sits at l squared
ResidueOnLine(atom) == atom[3] * atom[3]

\* lines 151-184 for every slot: the list of edges_compiled, or <<>> when
\* line 176 has nothing to stack
AllEdges ==
    LET line == [b \in Batch |-> [l \in DOMAIN X[b] |-> ResidueOnLine(X[b][l][1])]]
        E_idx == Dist_E_idx(line, [b \in Batch |-> [l \in DOMAIN X[b] |-> 1]], TOP_K)
    IN  IF NumSlots = 1 THEN <<>>
        ELSE [n \in 1 .. NumSlots |->
                 LET n_other == OthersFrom(n - 1, 0, NumSlots)
                 IN  [b \in Batch |->
                         EdgeNanMean([o \in 1 .. Len(n_other) |->
                             EdgeToOther(E_idx, b, n - 1, n_other[o])])]]

\* the pairs (n_current, n_o) in the order the loops of lines 191-196 visit them
RECURSIVE SlotPairs(_, _)
SlotPairs(from, count) ==
    IF from >= count THEN <<>>
    ELSE LET n_other == OthersFrom(from, 0, count)
         IN  [o \in 1 .. Len(n_other) |-> <<from, n_other[o]>>]
                 \o SlotPairs(from + 1, count)

\* lines 189-209: the list dX_all_agg
AllPairDistances ==
    LET pairs == SlotPairs(0, NumSlots)
    IN  [k \in 1 .. Len(pairs) |->
            PairDistances(BatchedIndexSelect1(X, SlotColumn(mut_positions, pairs[k][1])),
                          BatchedIndexSelect1(X, SlotColumn(mut_positions, pairs[k][2])))]

\* lines 147-212: the edge or distance features of the call
MultiFeatures ==
    /\ pc = "features"
    /\ IF cfg.edges
       THEN /\ mpnn_edges' = AllEdges
            /\ dX_all_agg' = dX_all_agg
            /\ IF AllEdges = <<>>
               THEN pc' = "raised" /\ err' = "RuntimeError"
               ELSE pc' = "gather_slots" /\ err' = err
       ELSE IF cfg.dist
       THEN /\ dX_all_agg' = AllPairDistances
            /\ mpnn_edges' = mpnn_edges
            /\ IF AllPairDistances = <<>>
               THEN pc' = "raised" /\ err' = "RuntimeError"
               ELSE pc' = "gather_slots" /\ err' = err
       ELSE /\ pc' = "gather_slots"
            /\ UNCHANGED <<err, mpnn_edges, dX_all_agg>>
    /\ UNCHANGED <<inputs, seqv, aggv, slot, ddg, ret, X, shapev>>

\* lines 139-145: mut_embed[:, :, i], the backbone's embedding W_s of the
\* mutant amino acids of slot i
MutantEmbedding(i) == [b \in Batch |-> <<"W_s", mut_mutant_AAs[b][i]>>]

\* lines 215-237 for slot i: gathered_embed, the parts that torch.cat joins
GatheredEmbed(i) ==
    LET current_positions == SlotColumn(mut_positions, i)
        gathered == TorchSqueeze1(TorchGatherDim1(mpnn_embed, ExpandIndex(current_positions)))
    IN  [b \in Batch |->
            [embed |-> gathered[b],
             mut |-> IF cfg.mutant_embedding THEN MutantEmbedding(i)[b] ELSE <<>>,
             extra |-> IF cfg.edges THEN mpnn_edges[i + 1][b]
                       ELSE IF cfg.dist THEN <<"dist_norm", dX_all_agg[i + 1][b]>>
                       ELSE <<>>]]

\* lines 214-237: the loop over slots.  mut_embed exists only when
\* num_final_layers > 0 (line 135).
MultiGather ==
    /\ pc = "gather_slots"
    /\ IF cfg.mutant_embedding /\ cfg.num_final_layers = 0
       THEN /\ pc' = "raised" /\ err' = "NameError"
            /\ UNCHANGED all_mpnn_embed
       ELSE /\ all_mpnn_embed' = [i \in Slots(NumSlots) |-> GatheredEmbed(i)]
            /\ pc' = "attend" /\ err' = err
    /\ UNCHANGED <<inputs, seqv, la_out, mask, mpnn_embed, slot, ddg, ret, featv, shapev>>

\* An integer that stands for the value of a combined embedding: equal
\* embeddings have equal codes.
EmbedCode(g) == g[0][3] + 1
MutCode(m) == IF m = <<>> THEN 0 ELSE m[2] + 1
EdgeCode(e) == e[3] * PermLen + e[4] + 1
ExtraCode(x) ==
    IF x = <<>> THEN 0
    ELSE IF x[1] = "zero" THEN 1
    ELSE IF x[1] = "mean"
    THEN 2 + 4 * SumOver([k \in 1 .. Len(x[2]) |-> EdgeCode(x[2][k])], 1 .. Len(x[2]))
           + Len(x[2])
    ELSE 100 + x[2][1][2][3] * PermLen + x[2][1][3][3]
FeatureCode(f) == (EmbedCode(f.embed) * 7 + MutCode(f.mut)) * 211 + ExtraCode(f.extra)

\* self.light_attention with weights w: coordinate e of its output for the
\* combined embedding f, a value in -5 .. 5
LightAttention(w, f, e) ==
    (((w + 2) * FeatureCode(f) + (e + 1) * FeatureCode(f) * FeatureCode(f)) % 11) - 5

\* lines 274-277: every slot's combined embedding goes through light attention
MultiLightAttention ==
    /\ pc = "attend"
    /\ all_mpnn_embed' =
          [i \in Slots(NumSlots) |-> [b \in Batch |-> [e \in Coords |->
              Num(LightAttention(dims.light_attention, all_mpnn_embed[i][b], e))]]]
    /\ la_out' = all_mpnn_embed'
    /\ pc' = "stack"
    /\ UNCHANGED <<err, inputs, seqv, mask, mpnn_embed, slot, ddg, ret, featv, shapev>>

\* the two slot columns i and j of sample b exchanged
Exchanged(t, b, i, j) ==
    [t EXCEPT ![b] = [t[b] EXCEPT ![i] = t[b][j], ![j] = t[b][i]]]

\* The caller keeps the aggregated embedding of one sample and calls forward
\* again on the same proteins, with two genuine slots of that sample exchanged.
CallExchanged ==
    /\ pc = "aggregated"
    /\ first_call = Unused
    /\ \E b \in Batch : \E i, j \in Slots(NumSlots) :
          /\ i < j /\ ~IsPadding(b, i) /\ ~IsPadding(b, j)
          /\ first_call' = [sample |-> b, embed |-> mpnn_embed[b]]
          /\ mut_positions' = Exchanged(mut_positions, b, i, j)
          /\ mut_wildtype_AAs' = Exchanged(mut_wildtype_AAs, b, i, j)
          /\ mut_mutant_AAs' = Exchanged(mut_mutant_AAs, b, i, j)
    /\ pc' = "features"
    /\ mpnn_embed' = WholeSequenceEmbedding(PermLen)
    /\ all_mpnn_embed' = <<>> /\ la_out' = Unused /\ mask' = Unused
    /\ mpnn_edges' = <<>> /\ dX_all_agg' = <<>>
    /\ UNCHANGED <<err, cfg, S, mut_idx, S_in, slot, ddg, ret, X, shapev>>

\* n slots per sample: slot 0 genuine, later slots genuine or padding, the
\* genuine slots of a sample at distinct positions, every mutation one of
\* amino acid 0 to amino acid 1 or 2.  Sample b holds sample 0's mutations
\* moved b residues along the sequence.
ExchangeSlotLists(n) ==
    {m \in [Slots(n) -> ((0 .. (PermLen - 1)) \X {1, 2}) \cup {<<0, 0>>}] :
        /\ m[0] # <<0, 0>>
        /\ \A i, j \in Slots(n) :
              (i # j /\ m[i] # <<0, 0>> /\ m[j] # <<0, 0>>) => m[i][1] # m[j][1]}

DrawExchangeSlots(n) ==
    \E m \in ExchangeSlotLists(n) :
        /\ mut_positions = [b \in Batch |-> [i \in Slots(n) |->
                               IF m[i] = <<0, 0>> THEN 0 ELSE (m[i][1] + b) % PermLen]]
        /\ mut_wildtype_AAs = [b \in Batch |-> [i \in Slots(n) |-> 0]]
        /\ mut_mutant_AAs = [b \in Batch |-> [i \in Slots(n) |-> m[i][2]]]

InitPerm ==
    /\ pc = "features"
    /\ err = "none"
    /\ \E a \in Aggregations, me \in BOOLEAN, f \in {"none", "edges", "dist"} :
          cfg = [BaseCfg EXCEPT !.aggregation = a, !.mutant_embedding = me,
                                !.edges = (f = "edges"), !.dist = (f = "dist")]
    /\ \E w \in 0 .. MaxTable : dims = [light_attention |-> w]
    /\ shape = Unused
    /\ \E n \in 1 .. (MaxMut + 1) : DrawExchangeSlots(n)
    /\ X = CoordsWithCbeta(PermLen)
    /\ mpnn_embed = WholeSequenceEmbedding(PermLen)
    /\ mpnn_edges = <<>> /\ dX_all_agg = <<>>
    /\ all_mpnn_embed = <<>> /\ la_out = Unused /\ mask = Unused
    /\ slot = 0
    /\ IdleSeq /\ IdleHead

NextPerm ==
    \/ MultiFeatures
    \/ MultiGather
    \/ MultiLightAttention
    \/ StackAndMask
    \/ Aggregate
    \/ CallExchanged

SpecPerm == InitPerm /\ [][NextPerm]_vars

(***************************************************************************)
(* C12: for the aggregations mean, sum, prod and max, exchanging two       *)
(* genuine slots of a sample (position, wild type and mutant together)     *)
(* leaves that sample's aggregated embedding unchanged, with or without    *)
(* mutant_embedding, edges or dist, for every number of slots N >= 2.      *)
(***************************************************************************)
C12_ExchangeLeavesAggregateUnchanged ==
    (pc = "aggregated" /\ first_call # Unused) =>
        mpnn_embed[first_call.sample] = first_call.embed

====
